---- MODULE Spec2Model ----
(***************************************************************************)
(* Model of the turn server in src/app.py: one game session (the dict      *)
(* stored in games[game_id]) and the request handlers that mutate it.      *)
(* Under Spec the server handles one request at a time: every handler is   *)
(* one atomic action whose request is drawn from the request alphabet.     *)
(***************************************************************************)
EXTENDS Integers, Sequences, FiniteSets, TLC

\* ------------------------------------------------------------------------
\* Program constants
\* ------------------------------------------------------------------------
MAX_ENTITIES == 4

PLANNING == "planning"
MOVING == "moving"

\* ------------------------------------------------------------------------
\* Bounds of the model
\* ------------------------------------------------------------------------
\* longest path a move request carries
MaxPathLen == 2
\* number of turns that are ended in a run
MaxTurns == 1

\* ------------------------------------------------------------------------
\* Input alphabets
\* ------------------------------------------------------------------------
Pos(q, r) == [q |-> q, r |-> r]

\* the cells paths are built from: the spawn cell of entity 0 and a neighbour
Cells == {Pos(4, 3), Pos(5, 4)}

RECURSIVE SeqsOfLen(_, _)
SeqsOfLen(S, n) ==
    IF n = 0 THEN {<<>>}
    ELSE {Append(s, x) : s \in SeqsOfLen(S, n - 1), x \in S}

\* a cell that is adjacent to no cell of Cells (the spawn cell of entity 3)
FarCell == Pos(7, 4)

\* the paths a move request may carry: the walks over Cells, adjacent or not,
\* and the walks that end with a jump to FarCell
Paths ==
    UNION {SeqsOfLen(Cells, n) : n \in 0..MaxPathLen}
    \cup UNION {{Append(p, FarCell) : p \in SeqsOfLen(Cells, n)} :
                  n \in 0..(MaxPathLen - 1)}

\* entity numbers a client may send: one below and one above the valid range
PlayerInputs == (-1)..MAX_ENTITIES

Entities == 0..(MAX_ENTITIES - 1)

MapNames == {"overworld", "island"}

\* parsed contents of the scenario files a set_scenario request may name
Scenarios ==
    { [hasMap |-> TRUE, map |-> "island", hasPositions |-> FALSE,
       player_positions |-> <<>>],
      [hasMap |-> FALSE, map |-> "", hasPositions |-> TRUE,
       player_positions |-> <<Pos(5, 4), Pos(4, 3), Pos(4, 3)>>],
      [hasMap |-> TRUE, map |-> "island", hasPositions |-> TRUE,
       player_positions |-> <<Pos(5, 4), Pos(4, 3), Pos(4, 3), Pos(4, 3),
                              Pos(3, 5)>>],
      [hasMap |-> FALSE, map |-> "", hasPositions |-> FALSE,
       player_positions |-> <<>>] }

\* ------------------------------------------------------------------------
\* Pure functions
\* ------------------------------------------------------------------------
Abs(x) == IF x < 0 THEN -x ELSE x

\* faulty variant of the adjacency: the six neighbours of a hexagonal cell
\* in axial coordinates
is_adjacent_six(pos1, pos2) ==
    LET dq == pos2.q - pos1.q
        dr == pos2.r - pos1.r
    IN <<dq, dr>> \in {<<1, 0>>, <<-1, 0>>, <<0, 1>>, <<0, -1>>,
                       <<1, -1>>, <<-1, 1>>}

\* faulty variant of the adjacency: a cell counts as adjacent to itself
is_adjacent_or_same(pos1, pos2) ==
    LET diff_q == Abs(pos2.q - pos1.q)
        diff_r == Abs(pos2.r - pos1.r)
    IN diff_q <= 1 /\ diff_r <= 1

is_adjacent_hex(pos1, pos2) ==
    LET diff_q == Abs(pos2.q - pos1.q)
        diff_r == Abs(pos2.r - pos1.r)
    IN (diff_q <= 1 /\ diff_r <= 1) /\ (diff_q + diff_r > 0)

RECURSIVE validate_steps(_, _)
validate_steps(path, i) ==
    IF i > Len(path) THEN TRUE
    ELSE IF ~is_adjacent_hex(path[i - 1], path[i]) THEN FALSE
    ELSE validate_steps(path, i + 1)

\* faulty variant of validate_path: a path needs at least one step
validate_path_needs_step(path) ==
    IF Len(path) < 2 THEN FALSE ELSE validate_steps(path, 2)

validate_path(path) ==
    IF Len(path) < 1 THEN FALSE ELSE validate_steps(path, 2)

\* faulty variants of the scan: no skipping of dead entities; the current
\* owner left out of the candidates
get_next_player_no_skip(g, current_player) ==
    (current_player + 1) % MAX_ENTITIES

RECURSIVE next_alive_scan_others(_, _, _)
next_alive_scan_others(g, current_player, i) ==
    IF i >= MAX_ENTITIES - 1 THEN -1
    ELSE LET next_player == (current_player + 1 + i) % MAX_ENTITIES
         IN IF g.stats[next_player].health > 0 THEN next_player
            ELSE next_alive_scan_others(g, current_player, i + 1)

get_next_alive_other(g, current_player) ==
    next_alive_scan_others(g, current_player, 0)

RECURSIVE next_alive_scan(_, _, _)
next_alive_scan(g, current_player, i) ==
    IF i >= MAX_ENTITIES THEN -1
    ELSE LET next_player == (current_player + 1 + i) % MAX_ENTITIES
         IN IF g.stats[next_player].health > 0 THEN next_player
            ELSE next_alive_scan(g, current_player, i + 1)

get_next_alive_player(g, current_player) ==
    next_alive_scan(g, current_player, 0)

\* ------------------------------------------------------------------------
\* Session state and responses
\* ------------------------------------------------------------------------
SpawnPositions ==
    [i \in Entities |->
        CASE i = 0 -> Pos(4, 3)
          [] i = 1 -> Pos(6, 3)
          [] i = 2 -> Pos(3, 5)
          [] i = 3 -> Pos(7, 4)]

create_game ==
    [positions |-> SpawnPositions,
     playerInTurn |-> 0,
     phase |-> PLANNING,
     lastPaths |-> [i \in Entities |-> <<SpawnPositions[i]>>],
     stats |-> [i \in Entities |->
                  [health |-> 10, max_health |-> 10, strength |-> 5]],
     map |-> "overworld"]

Ok(op) == [op |-> op, ok |-> TRUE, error |-> ""]
Err(op, msg) == [op |-> op, ok |-> FALSE, error |-> msg]
NoResp == [op |-> "none", ok |-> FALSE, error |-> ""]

\* result of a handler: the session afterwards and the response
Res(g, r) == [game |-> g, resp |-> r]

\* ------------------------------------------------------------------------
\* Handlers, as functions from (session, request data) to (session, response)
\* ------------------------------------------------------------------------
\* faulty variants of the commit of a move: the path is not recorded; the
\* entity is put on the first cell of the path
apply_move_keep_path(g, player, path) ==
    [g EXCEPT !.positions[player] = path[Len(path)],
              !.phase = MOVING]

apply_move_to_start(g, player, path) ==
    [g EXCEPT !.positions[player] = path[1],
              !.lastPaths[player] = path,
              !.phase = MOVING]

apply_move(g, player, path) ==
    [g EXCEPT !.positions[player] = path[Len(path)],
              !.lastPaths[player] = path,
              !.phase = MOVING]

\* faulty variants of make_move: the position is written before the path is
\* validated; the phase is checked after the path
make_move_early_write(g, data) ==
    IF ~data.fields THEN Res(g, Err("move", "Invalid request"))
    ELSE LET player == data.player
             path == data.path
         IN IF player < 0 \/ player >= MAX_ENTITIES
                THEN Res(g, Err("move", "Invalid player"))
            ELSE IF g.playerInTurn # player
                THEN Res(g, Err("move", "Not your turn"))
            ELSE IF g.phase # PLANNING
                THEN Res(g, Err("move", "Not in planning phase"))
            ELSE IF Len(path) = 0
                THEN Res(g, Err("move", "Empty path"))
            ELSE IF path[1].q # g.positions[player].q
                    \/ path[1].r # g.positions[player].r
                THEN Res(g, Err("move", "Path must start from current position"))
            ELSE IF ~validate_path(path)
                THEN Res([g EXCEPT !.positions[player] = path[Len(path)]],
                         Err("move", "Invalid path - non-adjacent hexes"))
            ELSE Res(apply_move(g, player, path), Ok("move"))

make_move_late_phase_check(g, data) ==
    IF ~data.fields THEN Res(g, Err("move", "Invalid request"))
    ELSE LET player == data.player
             path == data.path
         IN IF player < 0 \/ player >= MAX_ENTITIES
                THEN Res(g, Err("move", "Invalid player"))
            ELSE IF g.playerInTurn # player
                THEN Res(g, Err("move", "Not your turn"))
            ELSE IF Len(path) = 0
                THEN Res(g, Err("move", "Empty path"))
            ELSE IF path[1].q # g.positions[player].q
                    \/ path[1].r # g.positions[player].r
                THEN Res(g, Err("move", "Path must start from current position"))
            ELSE IF ~validate_path(path)
                THEN Res(g, Err("move", "Invalid path - non-adjacent hexes"))
            ELSE IF g.phase # PLANNING
                THEN Res(g, Err("move", "Not in planning phase"))
            ELSE Res(apply_move(g, player, path), Ok("move"))

\* faulty variant of make_move: the steps of the path are checked before its
\* first cell
make_move_steps_first(g, data) ==
    IF ~data.fields THEN Res(g, Err("move", "Invalid request"))
    ELSE LET player == data.player
             path == data.path
         IN IF player < 0 \/ player >= MAX_ENTITIES
                THEN Res(g, Err("move", "Invalid player"))
            ELSE IF g.playerInTurn # player
                THEN Res(g, Err("move", "Not your turn"))
            ELSE IF g.phase # PLANNING
                THEN Res(g, Err("move", "Not in planning phase"))
            ELSE IF Len(path) = 0
                THEN Res(g, Err("move", "Empty path"))
            ELSE IF ~validate_path(path)
                THEN Res(g, Err("move", "Invalid path - non-adjacent hexes"))
            ELSE IF path[1].q # g.positions[player].q
                    \/ path[1].r # g.positions[player].r
                THEN Res(g, Err("move", "Path must start from current position"))
            ELSE Res(apply_move(g, player, path), Ok("move"))

\* faulty variant of make_move: the phase is not checked
make_move_any_phase(g, data) ==
    IF ~data.fields THEN Res(g, Err("move", "Invalid request"))
    ELSE LET player == data.player
             path == data.path
         IN IF player < 0 \/ player >= MAX_ENTITIES
                THEN Res(g, Err("move", "Invalid player"))
            ELSE IF g.playerInTurn # player
                THEN Res(g, Err("move", "Not your turn"))
            ELSE IF Len(path) = 0
                THEN Res(g, Err("move", "Empty path"))
            ELSE IF path[1].q # g.positions[player].q
                    \/ path[1].r # g.positions[player].r
                THEN Res(g, Err("move", "Path must start from current position"))
            ELSE IF ~validate_path(path)
                THEN Res(g, Err("move", "Invalid path - non-adjacent hexes"))
            ELSE Res(apply_move(g, player, path), Ok("move"))

\* faulty variant of make_move: a path over a cell that holds another
\* entity is rejected
make_move_free_cells(g, data) ==
    IF ~data.fields THEN Res(g, Err("move", "Invalid request"))
    ELSE LET player == data.player
             path == data.path
         IN IF player < 0 \/ player >= MAX_ENTITIES
                THEN Res(g, Err("move", "Invalid player"))
            ELSE IF g.playerInTurn # player
                THEN Res(g, Err("move", "Not your turn"))
            ELSE IF g.phase # PLANNING
                THEN Res(g, Err("move", "Not in planning phase"))
            ELSE IF Len(path) = 0
                THEN Res(g, Err("move", "Empty path"))
            ELSE IF path[1].q # g.positions[player].q
                    \/ path[1].r # g.positions[player].r
                THEN Res(g, Err("move", "Path must start from current position"))
            ELSE IF ~validate_path(path)
                THEN Res(g, Err("move", "Invalid path - non-adjacent hexes"))
            ELSE IF \E i \in 1..Len(path), j \in Entities \ {player} :
                        path[i] = g.positions[j]
                THEN Res(g, Err("move", "Cell occupied"))
            ELSE Res(apply_move(g, player, path), Ok("move"))

make_move(g, data) ==
    IF ~data.fields THEN Res(g, Err("move", "Invalid request"))
    ELSE LET player == data.player
             path == data.path
         IN IF player < 0 \/ player >= MAX_ENTITIES
                THEN Res(g, Err("move", "Invalid player"))
            ELSE IF g.playerInTurn # player
                THEN Res(g, Err("move", "Not your turn"))
            ELSE IF g.phase # PLANNING
                THEN Res(g, Err("move", "Not in planning phase"))
            ELSE IF Len(path) = 0
                THEN Res(g, Err("move", "Empty path"))
            ELSE IF path[1].q # g.positions[player].q
                    \/ path[1].r # g.positions[player].r
                THEN Res(g, Err("move", "Path must start from current position"))
            ELSE IF ~validate_path(path)
                THEN Res(g, Err("move", "Invalid path - non-adjacent hexes"))
            ELSE Res(apply_move(g, player, path), Ok("move"))

\* faulty variants of the damage: the attacker is hit instead of the target;
\* the strength is added to the health
apply_damage_to_attacker(g, attacker, target) ==
    LET attacker_strength == g.stats[attacker].strength
        h == g.stats[attacker].health - attacker_strength
    IN [g EXCEPT !.stats[attacker].health = IF h < 0 THEN 0 ELSE h]

apply_damage_added(g, attacker, target) ==
    LET attacker_strength == g.stats[attacker].strength
        h == g.stats[target].health + attacker_strength
    IN [g EXCEPT !.stats[target].health = IF h < 0 THEN 0 ELSE h]

apply_damage(g, attacker, target) ==
    LET attacker_strength == g.stats[attacker].strength
        h == g.stats[target].health - attacker_strength
    IN [g EXCEPT !.stats[target].health = IF h < 0 THEN 0 ELSE h]

\* faulty variant of attack: the target's health is checked before its
\* distance
attack_alive_first(g, data) ==
    IF ~data.fields THEN Res(g, Err("attack", "Invalid request"))
    ELSE LET attacker == data.attacker
             target == data.target
         IN IF attacker < 0 \/ attacker >= MAX_ENTITIES
                 \/ target < 0 \/ target >= MAX_ENTITIES
                THEN Res(g, Err("attack", "Invalid player numbers"))
            ELSE IF g.playerInTurn # attacker
                THEN Res(g, Err("attack", "Not your turn"))
            ELSE IF g.phase # MOVING
                THEN Res(g, Err("attack", "Not in moving phase"))
            ELSE IF attacker = target
                THEN Res(g, Err("attack", "Cannot attack yourself"))
            ELSE IF g.stats[target].health <= 0
                THEN Res(g, Err("attack", "Target is already dead"))
            ELSE IF ~is_adjacent_hex(g.positions[attacker], g.positions[target])
                THEN Res(g, Err("attack", "Target not adjacent"))
            ELSE Res(apply_damage(g, attacker, target), Ok("attack"))

attack(g, data) ==
    IF ~data.fields THEN Res(g, Err("attack", "Invalid request"))
    ELSE LET attacker == data.attacker
             target == data.target
         IN IF attacker < 0 \/ attacker >= MAX_ENTITIES
                 \/ target < 0 \/ target >= MAX_ENTITIES
                THEN Res(g, Err("attack", "Invalid player numbers"))
            ELSE IF g.playerInTurn # attacker
                THEN Res(g, Err("attack", "Not your turn"))
            ELSE IF g.phase # MOVING
                THEN Res(g, Err("attack", "Not in moving phase"))
            ELSE IF attacker = target
                THEN Res(g, Err("attack", "Cannot attack yourself"))
            ELSE IF ~is_adjacent_hex(g.positions[attacker], g.positions[target])
                THEN Res(g, Err("attack", "Target not adjacent"))
            ELSE IF g.stats[target].health <= 0
                THEN Res(g, Err("attack", "Target is already dead"))
            ELSE Res(apply_damage(g, attacker, target), Ok("attack"))

\* faulty variant of the owner written by end_turn: entities counted from 1
advance_turn_one_based(g, next_player) ==
    [g EXCEPT !.playerInTurn = next_player + 1, !.phase = PLANNING]

\* faulty variant of the owner written by end_turn: the entity after the
\* owner, whatever the scan found
advance_turn_to_successor(g, next_player) ==
    [g EXCEPT !.playerInTurn = (g.playerInTurn + 1) % MAX_ENTITIES,
              !.phase = PLANNING]

advance_turn(g, next_player) ==
    [g EXCEPT !.playerInTurn = next_player, !.phase = PLANNING]

\* faulty variant of end_turn: the phase is checked before the turn
end_turn_phase_first(g, data) ==
    IF ~data.fields THEN Res(g, Err("end_turn", "Invalid request"))
    ELSE LET player == data.player
         IN IF player < 0 \/ player >= MAX_ENTITIES
                THEN Res(g, Err("end_turn", "Invalid player"))
            ELSE IF g.phase # MOVING
                THEN Res(g, Err("end_turn", "Not in moving phase"))
            ELSE IF g.playerInTurn # player
                THEN Res(g, Err("end_turn", "Not your turn"))
            ELSE LET old_player == g.playerInTurn
                     next_player == get_next_alive_player(g, old_player)
                 IN IF next_player = -1
                        THEN Res(g, Err("end_turn", "Game over - no alive players"))
                    ELSE Res(advance_turn(g, next_player), Ok("end_turn"))

end_turn(g, data) ==
    IF ~data.fields THEN Res(g, Err("end_turn", "Invalid request"))
    ELSE LET player == data.player
         IN IF player < 0 \/ player >= MAX_ENTITIES
                THEN Res(g, Err("end_turn", "Invalid player"))
            ELSE IF g.playerInTurn # player
                THEN Res(g, Err("end_turn", "Not your turn"))
            ELSE IF g.phase # MOVING
                THEN Res(g, Err("end_turn", "Not in moving phase"))
            ELSE LET old_player == g.playerInTurn
                     next_player == get_next_alive_player(g, old_player)
                 IN IF next_player = -1
                        THEN Res(g, Err("end_turn", "Game over - no alive players"))
                    ELSE Res(advance_turn(g, next_player), Ok("end_turn"))

set_map(g, data) ==
    IF ~data.fields
        THEN Res(g, Err("set_map", "Invalid request - map field required"))
    ELSE Res([g EXCEPT !.map = data.map], Ok("set_map"))

\* faulty variant of the scenario's positions: a scenario with fewer than
\* MAX_ENTITIES positions places the entities it has positions for
apply_positions_partial(g, positions) ==
    [g EXCEPT
       !.positions = [i \in Entities |->
                         IF i < Len(positions) THEN positions[i + 1]
                         ELSE g.positions[i]],
       !.lastPaths = [i \in Entities |->
                         IF i < Len(positions) THEN <<positions[i + 1]>>
                         ELSE g.lastPaths[i]]]

apply_positions(g, positions) ==
    IF Len(positions) >= MAX_ENTITIES
        THEN [g EXCEPT
                !.positions = [i \in Entities |-> positions[i + 1]],
                !.lastPaths = [i \in Entities |-> <<positions[i + 1]>>]]
    ELSE g

set_scenario(g, data) ==
    IF ~data.fields
        THEN Res(g, Err("set_scenario", "Invalid request - scenario field required"))
    ELSE IF data.file = "missing"
        THEN Res(g, Err("set_scenario", "Scenario not found"))
    ELSE IF data.file = "invalid"
        THEN Res(g, Err("set_scenario", "Invalid JSON in scenario"))
    ELSE LET scenario_data == data.scenario_data
             g1 == IF scenario_data.hasMap
                       THEN [g EXCEPT !.map = scenario_data.map]
                   ELSE g
             g2 == IF scenario_data.hasPositions
                       THEN apply_positions(g1, scenario_data.player_positions)
                   ELSE g1
         IN Res(g2, Ok("set_scenario"))

\* ------------------------------------------------------------------------
\* Requests a client may send
\* ------------------------------------------------------------------------
NoScenario ==
    [hasMap |-> FALSE, map |-> "", hasPositions |-> FALSE,
     player_positions |-> <<>>]

MoveRequests ==
    {[op |-> "move", fields |-> TRUE, player |-> p, path |-> path] :
        p \in PlayerInputs, path \in Paths}
    \cup {[op |-> "move", fields |-> FALSE, player |-> 0, path |-> <<>>]}

AttackRequests ==
    {[op |-> "attack", fields |-> TRUE, attacker |-> a, target |-> t] :
        a \in PlayerInputs, t \in PlayerInputs}
    \cup {[op |-> "attack", fields |-> FALSE, attacker |-> 0, target |-> 0]}

EndTurnRequests ==
    {[op |-> "end_turn", fields |-> f, player |-> p] :
        f \in {TRUE}, p \in PlayerInputs}
    \cup {[op |-> "end_turn", fields |-> FALSE, player |-> 0]}

SetMapRequests ==
    {[op |-> "set_map", fields |-> TRUE, map |-> m] : m \in MapNames}
    \cup {[op |-> "set_map", fields |-> FALSE, map |-> ""]}

SetScenarioRequests ==
    {[op |-> "set_scenario", fields |-> TRUE, file |-> "ok",
      scenario_data |-> s] : s \in Scenarios}
    \cup {[op |-> "set_scenario", fields |-> TRUE, file |-> f,
           scenario_data |-> NoScenario] : f \in {"missing", "invalid"}}
    \cup {[op |-> "set_scenario", fields |-> FALSE, file |-> "ok",
           scenario_data |-> NoScenario]}

Requests ==
    MoveRequests \cup AttackRequests \cup EndTurnRequests
        \cup SetMapRequests \cup SetScenarioRequests

Idle == [op |-> "none", fields |-> FALSE]

\* ------------------------------------------------------------------------
\* The server handling one request at a time
\* ------------------------------------------------------------------------
\* game:  the session, games[game_id]
\* resp:  the response to the request handled last
\* turns: the number of turns ended so far (history, bounds the run)
VARIABLES game, resp, turns

\* The threads of the server when requests overlap (SpecConc, below):
\* pc:     where each thread is in its handler
\* treq:   the request each thread is handling
\* tresp:  the response each thread has returned
\* loc:    the local variables of each thread's handler
\* base:   the session when the two overlapping requests arrived (history)
\* rounds: the number of pairs of overlapping requests so far (history)
VARIABLES pc, treq, tresp, loc, base, rounds

\* The inputs and the result of one call of is_adjacent_hex (SpecGeom, below)
VARIABLES probe

seqVars == <<resp, turns>>
concVars == <<pc, treq, tresp, loc, base, rounds>>
geomVars == <<probe>>
vars == <<game, resp, turns, pc, treq, tresp, loc, base, rounds, probe>>

Threads == {1, 2}

NoLoc == [attacker_strength |-> 0, health |-> 0, old_player |-> 0,
          next_player |-> 0]

InitThreads ==
    /\ pc = [t \in Threads |-> "idle"]
    /\ treq = [t \in Threads |-> Idle]
    /\ tresp = [t \in Threads |-> NoResp]
    /\ loc = [t \in Threads |-> NoLoc]
    /\ base = create_game
    /\ rounds = 0

NoProbe == [pos1 |-> Pos(0, 0), pos2 |-> Pos(0, 0), adjacent |-> FALSE]

Init ==
    /\ game = create_game
    /\ resp = NoResp
    /\ turns = 0
    /\ InitThreads
    /\ probe = NoProbe

Handle(res) ==
    /\ game' = res.game
    /\ resp' = res.resp

MakeMove ==
    /\ \E data \in MoveRequests : Handle(make_move(game, data))
    /\ UNCHANGED turns
    /\ UNCHANGED concVars
    /\ UNCHANGED geomVars

Attack ==
    /\ \E data \in AttackRequests : Handle(attack(game, data))
    /\ UNCHANGED turns
    /\ UNCHANGED concVars
    /\ UNCHANGED geomVars

\* clients stop ending turns after MaxTurns turns
EndTurn ==
    /\ turns < MaxTurns
    /\ \E data \in EndTurnRequests :
          /\ Handle(end_turn(game, data))
          /\ turns' = IF end_turn(game, data).resp.ok THEN turns + 1 ELSE turns
    /\ UNCHANGED concVars
    /\ UNCHANGED geomVars

SetMap ==
    /\ \E data \in SetMapRequests : Handle(set_map(game, data))
    /\ UNCHANGED turns
    /\ UNCHANGED concVars
    /\ UNCHANGED geomVars

SetScenario ==
    /\ \E data \in SetScenarioRequests : Handle(set_scenario(game, data))
    /\ UNCHANGED turns
    /\ UNCHANGED concVars
    /\ UNCHANGED geomVars

Next ==
    \/ MakeMove
    \/ Attack
    \/ EndTurn
    \/ SetMap
    \/ SetScenario

Spec == Init /\ [][Next]_vars

\* ------------------------------------------------------------------------
\* The server handling two overlapping requests. app.run starts the threaded
\* development server: every request runs its handler in a thread of its
\* own, the handlers take no lock, and a thread may be preempted between any
\* two accesses to the session. Each action below is one access to the
\* session (with the local computation that follows it) by one thread.
\* ------------------------------------------------------------------------
\* number of pairs of overlapping requests in a run
MaxRounds == 3

\* the requests that overlap: moves, an attack and an end_turn of entity 0
ConcRequests ==
    {[op |-> "move", fields |-> TRUE, player |-> 0, path |-> <<Pos(4, 3)>>],
     [op |-> "move", fields |-> TRUE, player |-> 0,
      path |-> <<Pos(4, 3), Pos(5, 4)>>],
     [op |-> "attack", fields |-> TRUE, attacker |-> 0, target |-> 1],
     [op |-> "end_turn", fields |-> TRUE, player |-> 0]}

Entry(data) ==
    CASE data.op = "move" -> "move_turn"
      [] data.op = "attack" -> "attack_turn"
      [] data.op = "end_turn" -> "end_turn_turn"

Goto(t, label) ==
    /\ pc' = [pc EXCEPT ![t] = label]
    /\ UNCHANGED <<game, tresp, loc>>

Return(t, r) ==
    /\ pc' = [pc EXCEPT ![t] = "done"]
    /\ tresp' = [tresp EXCEPT ![t] = r]
    /\ UNCHANGED <<game, loc>>

Write(t, g, label) ==
    /\ game' = g
    /\ pc' = [pc EXCEPT ![t] = label]
    /\ UNCHANGED <<tresp, loc>>

Frame == UNCHANGED <<treq, base, rounds, seqVars, geomVars>>

\* two requests arrive while no handler is running
StartPair ==
    /\ \A t \in Threads : pc[t] = "idle"
    /\ rounds < MaxRounds
    /\ \E r1 \in ConcRequests, r2 \in ConcRequests :
          /\ treq' = [t \in Threads |-> IF t = 1 THEN r1 ELSE r2]
          /\ pc' = [t \in Threads |-> IF t = 1 THEN Entry(r1) ELSE Entry(r2)]
    /\ tresp' = [t \in Threads |-> NoResp]
    /\ base' = game
    /\ rounds' = rounds + 1
    /\ UNCHANGED <<game, loc, seqVars, geomVars>>

\* both responses have been sent
FinishPair ==
    /\ \A t \in Threads : pc[t] = "done"
    /\ pc' = [t \in Threads |-> "idle"]
    /\ treq' = [t \in Threads |-> Idle]
    /\ tresp' = [t \in Threads |-> NoResp]
    /\ loc' = [t \in Threads |-> NoLoc]
    /\ UNCHANGED <<game, base, rounds, seqVars, geomVars>>

\* make_move ---------------------------------------------------------------
MoveCheckTurn(t) ==
    /\ pc[t] = "move_turn"
    /\ LET data == treq[t]
       IN IF ~data.fields THEN Return(t, Err("move", "Invalid request"))
          ELSE IF data.player < 0 \/ data.player >= MAX_ENTITIES
              THEN Return(t, Err("move", "Invalid player"))
          ELSE IF game.playerInTurn # data.player
              THEN Return(t, Err("move", "Not your turn"))
          ELSE Goto(t, "move_phase")
    /\ Frame

MoveCheckPhase(t) ==
    /\ pc[t] = "move_phase"
    /\ IF game.phase # PLANNING
           THEN Return(t, Err("move", "Not in planning phase"))
       ELSE Goto(t, "move_path")
    /\ Frame

MoveCheckPath(t) ==
    /\ pc[t] = "move_path"
    /\ LET player == treq[t].player
           path == treq[t].path
       IN IF Len(path) = 0 THEN Return(t, Err("move", "Empty path"))
          ELSE IF path[1].q # game.positions[player].q
                  \/ path[1].r # game.positions[player].r
              THEN Return(t, Err("move", "Path must start from current position"))
          ELSE IF ~validate_path(path)
              THEN Return(t, Err("move", "Invalid path - non-adjacent hexes"))
          ELSE Goto(t, "move_write_position")
    /\ Frame

MoveWritePosition(t) ==
    /\ pc[t] = "move_write_position"
    /\ LET path == treq[t].path
       IN Write(t, [game EXCEPT !.positions[treq[t].player] = path[Len(path)]],
                "move_write_path")
    /\ Frame

MoveWritePath(t) ==
    /\ pc[t] = "move_write_path"
    /\ Write(t, [game EXCEPT !.lastPaths[treq[t].player] = treq[t].path],
             "move_write_phase")
    /\ Frame

MoveWritePhase(t) ==
    /\ pc[t] = "move_write_phase"
    /\ game' = [game EXCEPT !.phase = MOVING]
    /\ pc' = [pc EXCEPT ![t] = "done"]
    /\ tresp' = [tresp EXCEPT ![t] = Ok("move")]
    /\ UNCHANGED loc
    /\ Frame

\* attack ------------------------------------------------------------------
AttackCheckTurn(t) ==
    /\ pc[t] = "attack_turn"
    /\ LET data == treq[t]
       IN IF ~data.fields THEN Return(t, Err("attack", "Invalid request"))
          ELSE IF data.attacker < 0 \/ data.attacker >= MAX_ENTITIES
                  \/ data.target < 0 \/ data.target >= MAX_ENTITIES
              THEN Return(t, Err("attack", "Invalid player numbers"))
          ELSE IF game.playerInTurn # data.attacker
              THEN Return(t, Err("attack", "Not your turn"))
          ELSE Goto(t, "attack_phase")
    /\ Frame

AttackCheckPhase(t) ==
    /\ pc[t] = "attack_phase"
    /\ IF game.phase # MOVING
           THEN Return(t, Err("attack", "Not in moving phase"))
       ELSE IF treq[t].attacker = treq[t].target
           THEN Return(t, Err("attack", "Cannot attack yourself"))
       ELSE Goto(t, "attack_adjacent")
    /\ Frame

AttackCheckAdjacent(t) ==
    /\ pc[t] = "attack_adjacent"
    /\ IF ~is_adjacent_hex(game.positions[treq[t].attacker],
                           game.positions[treq[t].target])
           THEN Return(t, Err("attack", "Target not adjacent"))
       ELSE Goto(t, "attack_alive")
    /\ Frame

AttackCheckAlive(t) ==
    /\ pc[t] = "attack_alive"
    /\ IF game.stats[treq[t].target].health <= 0
           THEN Return(t, Err("attack", "Target is already dead"))
       ELSE Goto(t, "attack_strength")
    /\ Frame

AttackReadStrength(t) ==
    /\ pc[t] = "attack_strength"
    /\ loc' = [loc EXCEPT ![t].attacker_strength =
                              game.stats[treq[t].attacker].strength]
    /\ pc' = [pc EXCEPT ![t] = "attack_load"]
    /\ UNCHANGED <<game, tresp>>
    /\ Frame

\* health -= attacker_strength loads the health, subtracts and stores
AttackLoadHealth(t) ==
    /\ pc[t] = "attack_load"
    /\ loc' = [loc EXCEPT ![t].health = game.stats[treq[t].target].health]
    /\ pc' = [pc EXCEPT ![t] = "attack_store"]
    /\ UNCHANGED <<game, tresp>>
    /\ Frame

AttackStoreHealth(t) ==
    /\ pc[t] = "attack_store"
    /\ Write(t, [game EXCEPT !.stats[treq[t].target].health =
                                 loc[t].health - loc[t].attacker_strength],
             "attack_clamp")
    /\ Frame

AttackCheckClamp(t) ==
    /\ pc[t] = "attack_clamp"
    /\ IF game.stats[treq[t].target].health < 0
           THEN Goto(t, "attack_write_zero")
       ELSE Return(t, Ok("attack"))
    /\ Frame

AttackWriteZero(t) ==
    /\ pc[t] = "attack_write_zero"
    /\ game' = [game EXCEPT !.stats[treq[t].target].health = 0]
    /\ pc' = [pc EXCEPT ![t] = "done"]
    /\ tresp' = [tresp EXCEPT ![t] = Ok("attack")]
    /\ UNCHANGED loc
    /\ Frame

\* end_turn ----------------------------------------------------------------
EndTurnCheckTurn(t) ==
    /\ pc[t] = "end_turn_turn"
    /\ LET data == treq[t]
       IN IF ~data.fields THEN Return(t, Err("end_turn", "Invalid request"))
          ELSE IF data.player < 0 \/ data.player >= MAX_ENTITIES
              THEN Return(t, Err("end_turn", "Invalid player"))
          ELSE IF game.playerInTurn # data.player
              THEN Return(t, Err("end_turn", "Not your turn"))
          ELSE Goto(t, "end_turn_phase")
    /\ Frame

EndTurnCheckPhase(t) ==
    /\ pc[t] = "end_turn_phase"
    /\ IF game.phase # MOVING
           THEN Return(t, Err("end_turn", "Not in moving phase"))
       ELSE Goto(t, "end_turn_old")
    /\ Frame

EndTurnReadOwner(t) ==
    /\ pc[t] = "end_turn_old"
    /\ loc' = [loc EXCEPT ![t].old_player = game.playerInTurn]
    /\ pc' = [pc EXCEPT ![t] = "end_turn_scan"]
    /\ UNCHANGED <<game, tresp>>
    /\ Frame

EndTurnScan(t) ==
    /\ pc[t] = "end_turn_scan"
    /\ LET next_player == get_next_alive_player(game, loc[t].old_player)
       IN IF next_player = -1
              THEN Return(t, Err("end_turn", "Game over - no alive players"))
          ELSE /\ loc' = [loc EXCEPT ![t].next_player = next_player]
               /\ pc' = [pc EXCEPT ![t] = "end_turn_write_owner"]
               /\ UNCHANGED <<game, tresp>>
    /\ Frame

EndTurnWriteOwner(t) ==
    /\ pc[t] = "end_turn_write_owner"
    /\ Write(t, [game EXCEPT !.playerInTurn = loc[t].next_player],
             "end_turn_write_phase")
    /\ Frame

EndTurnWritePhase(t) ==
    /\ pc[t] = "end_turn_write_phase"
    /\ game' = [game EXCEPT !.phase = PLANNING]
    /\ pc' = [pc EXCEPT ![t] = "done"]
    /\ tresp' = [tresp EXCEPT ![t] = Ok("end_turn")]
    /\ UNCHANGED loc
    /\ Frame

MoveStep ==
    \E t \in Threads :
        \/ MoveCheckTurn(t)
        \/ MoveCheckPhase(t)
        \/ MoveCheckPath(t)
        \/ MoveWritePosition(t)
        \/ MoveWritePath(t)
        \/ MoveWritePhase(t)

AttackStep ==
    \E t \in Threads :
        \/ AttackCheckTurn(t)
        \/ AttackCheckPhase(t)
        \/ AttackCheckAdjacent(t)
        \/ AttackCheckAlive(t)
        \/ AttackReadStrength(t)
        \/ AttackLoadHealth(t)
        \/ AttackStoreHealth(t)
        \/ AttackCheckClamp(t)
        \/ AttackWriteZero(t)

EndTurnStep ==
    \E t \in Threads :
        \/ EndTurnCheckTurn(t)
        \/ EndTurnCheckPhase(t)
        \/ EndTurnReadOwner(t)
        \/ EndTurnScan(t)
        \/ EndTurnWriteOwner(t)
        \/ EndTurnWritePhase(t)

NextConc ==
    \/ StartPair
    \/ MoveStep
    \/ AttackStep
    \/ EndTurnStep
    \/ FinishPair

SpecConc == Init /\ [][NextConc]_vars

\* ------------------------------------------------------------------------
\* is_adjacent_hex called on its own, on the cells of a small grid
\* ------------------------------------------------------------------------
\* the grid has the coordinates 0..GridMax on both axes
GridMax == 3

Grid == {Pos(q, r) : q \in 0..GridMax, r \in 0..GridMax}

Probe ==
    /\ \E pos1 \in Grid, pos2 \in Grid :
          probe' = [pos1 |-> pos1, pos2 |-> pos2,
                    adjacent |-> is_adjacent_hex(pos1, pos2)]
    /\ UNCHANGED <<game, seqVars, concVars>>

NextGeom == Probe

SpecGeom == Init /\ [][NextGeom]_vars

\* ------------------------------------------------------------------------
\* The server with a turn owner who keeps playing
\* ------------------------------------------------------------------------
\* the move that stays on the owner's cell
OwnerStayRequest(g) ==
    [op |-> "move", fields |-> TRUE, player |-> g.playerInTurn,
     path |-> <<g.positions[g.playerInTurn]>>]

OwnerEndTurnRequest(g) ==
    [op |-> "end_turn", fields |-> TRUE, player |-> g.playerInTurn]

SubmitOwnerMove ==
    /\ Handle(make_move(game, OwnerStayRequest(game)))
    /\ UNCHANGED turns
    /\ UNCHANGED concVars
    /\ UNCHANGED geomVars

\* turns stops counting at MaxTurns
SubmitOwnerEndTurn ==
    /\ Handle(end_turn(game, OwnerEndTurnRequest(game)))
    /\ turns' = IF end_turn(game, OwnerEndTurnRequest(game)).resp.ok
                    /\ turns < MaxTurns
                 THEN turns + 1 ELSE turns
    /\ UNCHANGED concVars
    /\ UNCHANGED geomVars

\* the other clients stop sending requests after MaxTurns turns
OtherRequests ==
    /\ turns < MaxTurns
    /\ Next

NextLive ==
    \/ OtherRequests
    \/ SubmitOwnerMove
    \/ SubmitOwnerEndTurn

\* the turn owner keeps submitting its two requests
SpecLive ==
    /\ Init
    /\ [][NextLive]_vars
    /\ WF_vars(SubmitOwnerMove)
    /\ WF_vars(SubmitOwnerEndTurn)

\* ------------------------------------------------------------------------
\* Helpers of the properties
\* ------------------------------------------------------------------------
GameOps == {"move", "attack", "end_turn"}

Max0(x) == IF x < 0 THEN 0 ELSE x

\* everything of the session except the fields of entity a's position and path
SameButMover(g, h, a) ==
    /\ h.playerInTurn = g.playerInTurn
    /\ h.stats = g.stats
    /\ h.map = g.map
    /\ \A j \in Entities \ {a} :
          /\ h.positions[j] = g.positions[j]
          /\ h.lastPaths[j] = g.lastPaths[j]

\* everything of the session except the health of entity t
SameButHealth(g, h, t) ==
    /\ h.playerInTurn = g.playerInTurn
    /\ h.phase = g.phase
    /\ h.positions = g.positions
    /\ h.lastPaths = g.lastPaths
    /\ h.map = g.map
    /\ \A j \in Entities :
          /\ h.stats[j].max_health = g.stats[j].max_health
          /\ h.stats[j].strength = g.stats[j].strength
          /\ (j # t => h.stats[j].health = g.stats[j].health)

OthersDead(g) ==
    \A j \in Entities \ {g.playerInTurn} : g.stats[j].health = 0

\* ------------------------------------------------------------------------
\* C1: a rejected move, attack or end_turn request leaves the whole session
\* unchanged: positions, lastPaths, stats, playerInTurn, phase and map are
\* the same before and after the request.
\* ------------------------------------------------------------------------
C1_RejectionLeavesSession ==
    [][(resp'.op \in GameOps /\ ~resp'.ok) => game' = game]_vars

\* a move was rejected at the last check of the handler, after the session
\* had already been changed by earlier requests
C1_Witness ==
    /\ resp = Err("move", "Invalid path - non-adjacent hexes")
    /\ game.positions # SpawnPositions

\* ------------------------------------------------------------------------
\* C2: an accepted move by actor a with path p sets position[a] to the last
\* element of p, lastPath[a] to p and phase to moving, and changes nothing
\* else.
\* ------------------------------------------------------------------------
C2_AcceptedMoveEffect ==
    \A data \in MoveRequests :
        LET res == make_move(game, data)
            a == data.player
            p == data.path
        IN res.resp.ok =>
              /\ res.game.positions[a] = p[Len(p)]
              /\ res.game.lastPaths[a] = p
              /\ res.game.phase = MOVING
              /\ SameButMover(game, res.game, a)

\* a two-cell move has just been accepted
C2_Witness ==
    /\ resp = Ok("move")
    /\ game.phase = MOVING
    /\ Len(game.lastPaths[game.playerInTurn]) = 2
    /\ game.lastPaths[game.playerInTurn][1] # game.positions[game.playerInTurn]

\* ------------------------------------------------------------------------
\* C3: an accepted attack by attacker a on target t sets health[t] to
\* max(0, health[t] - strength[a]), which is neither negative nor larger
\* than before, and changes nothing else: the phase stays moving and the
\* turn stays with a.
\* ------------------------------------------------------------------------
C3_AcceptedAttackEffect ==
    \A data \in AttackRequests :
        LET res == attack(game, data)
            a == data.attacker
            t == data.target
        IN res.resp.ok =>
              /\ res.game.stats[t].health
                    = Max0(game.stats[t].health - game.stats[a].strength)
              /\ res.game.stats[t].health >= 0
              /\ res.game.stats[t].health <= game.stats[t].health
              /\ res.game.phase = MOVING
              /\ res.game.playerInTurn = a
              /\ SameButHealth(game, res.game, t)

\* an attack has just been accepted and an entity hit twice is at health 0
C3_Witness ==
    /\ resp = Ok("attack")
    /\ game.phase = MOVING
    /\ \E t \in Entities \ {game.playerInTurn} : game.stats[t].health = 0

\* ------------------------------------------------------------------------
\* C4: an accepted end_turn by actor c sets phase to planning and
\* playerInTurn to the first entity with health > 0 in the cyclic order
\* c+1, c+2, ..., c+N (mod N); with entities [alive, dead, dead, alive],
\* ending entity 0's turn passes the turn to entity 3; nothing else changes.
\* ------------------------------------------------------------------------
C4_EndTurnNextAlive ==
    \A data \in EndTurnRequests :
        LET res == end_turn(game, data)
            c == data.player
            n == res.game.playerInTurn
        IN res.resp.ok =>
              /\ res.game.phase = PLANNING
              /\ \E k \in 1..MAX_ENTITIES :
                    /\ n = (c + k) % MAX_ENTITIES
                    /\ game.stats[n].health > 0
                    /\ \A j \in 1..(k - 1) :
                          game.stats[(c + j) % MAX_ENTITIES].health <= 0
              /\ (c = 0 /\ game.stats[1].health = 0 /\ game.stats[2].health = 0
                    /\ game.stats[3].health > 0 => n = 3)
              /\ res.game.positions = game.positions
              /\ res.game.lastPaths = game.lastPaths
              /\ res.game.stats = game.stats
              /\ res.game.map = game.map

\* entity 0 ended its turn with entities 1 and 2 dead: the turn is entity 3's
C4_Witness ==
    /\ resp = Ok("end_turn")
    /\ turns = 1
    /\ game.playerInTurn = 3
    /\ game.phase = PLANNING
    /\ game.stats[1].health = 0
    /\ game.stats[2].health = 0

\* ------------------------------------------------------------------------
\* C5 (as stated): when every entity except the turn owner is dead and the
\* phase is moving, an end_turn request by the owner is rejected with
\* "Game over - no alive players" and leaves playerInTurn and phase
\* unchanged.
\* ------------------------------------------------------------------------
OwnerEndTurn(g) == [op |-> "end_turn", fields |-> TRUE, player |-> g.playerInTurn]

C5_Original ==
    (OthersDead(game) /\ game.phase = MOVING) =>
        LET res == end_turn(game, OwnerEndTurn(game))
        IN /\ res.resp = Err("end_turn", "Game over - no alive players")
           /\ res.game.playerInTurn = game.playerInTurn
           /\ res.game.phase = game.phase

\* the session with every entity dead, which only the scan can tell apart
AllDead(g) ==
    [g EXCEPT !.stats = [i \in Entities |-> [g.stats[i] EXCEPT !.health = 0]]]

\* C5 (amended): when every entity except the turn owner is dead and the
\* phase is moving, an end_turn request by the owner is accepted: the scan
\* wraps back to the owner, who is alive, so playerInTurn stays the owner and
\* phase becomes planning. The "Game over - no alive players" rejection,
\* which leaves playerInTurn and phase unchanged, needs the owner to be dead
\* as well.
C5_LastSurvivorKeepsTurn ==
    /\ (OthersDead(game) /\ game.phase = MOVING) =>
          LET res == end_turn(game, OwnerEndTurn(game))
          IN /\ game.stats[game.playerInTurn].health > 0
             /\ res.resp = Ok("end_turn")
             /\ res.game.playerInTurn = game.playerInTurn
             /\ res.game.phase = PLANNING
    /\ game.phase = MOVING =>
          LET res == end_turn(AllDead(game), OwnerEndTurn(game))
          IN /\ res.resp = Err("end_turn", "Game over - no alive players")
             /\ res.game = AllDead(game)

\* the last survivor has just ended its turn and holds the next turn as well
C5_Witness ==
    /\ resp = Ok("end_turn")
    /\ turns = 1
    /\ OthersDead(game)
    /\ game.playerInTurn = 0
    /\ game.phase = PLANNING

\* ------------------------------------------------------------------------
\* C6 (as stated): every move request submitted while the phase is moving
\* is rejected with "Not in planning phase", whatever the actor and whatever
\* the path.
\* ------------------------------------------------------------------------
C6_Original ==
    game.phase = MOVING =>
        \A data \in MoveRequests :
            data.fields =>
                make_move(game, data).resp = Err("move", "Not in planning phase")

\* C6 (amended): every move request submitted while the phase is moving is
\* rejected, whatever the actor and whatever the path; the error is
\* "Not in planning phase" when the actor is the turn owner, "Invalid player"
\* when the actor is outside [0,N) and "Not your turn" for any other actor.
C6_MoveRejectedWhileMoving ==
    game.phase = MOVING =>
        \A data \in MoveRequests :
            data.fields =>
                LET r == make_move(game, data).resp
                IN /\ ~r.ok
                   /\ r.error =
                        IF data.player \notin Entities THEN "Invalid player"
                        ELSE IF data.player # game.playerInTurn
                            THEN "Not your turn"
                        ELSE "Not in planning phase"

\* the owner's second move of a turn has just been rejected
C6_Witness ==
    /\ resp = Err("move", "Not in planning phase")
    /\ game.phase = MOVING

\* ------------------------------------------------------------------------
\* C7 (as stated): every move, attack or end_turn request whose actor differs
\* from playerInTurn is rejected with "Not your turn", for every value of the
\* index and every other argument.
\* ------------------------------------------------------------------------
C7_Original ==
    /\ \A data \in MoveRequests :
          (data.fields /\ data.player # game.playerInTurn) =>
              make_move(game, data).resp = Err("move", "Not your turn")
    /\ \A data \in AttackRequests :
          (data.fields /\ data.attacker # game.playerInTurn) =>
              attack(game, data).resp = Err("attack", "Not your turn")
    /\ \A data \in EndTurnRequests :
          (data.fields /\ data.player # game.playerInTurn) =>
              end_turn(game, data).resp = Err("end_turn", "Not your turn")

\* C7 (amended): every move, attack or end_turn request whose entity numbers
\* (actor, and target of an attack) are in [0,N) and whose actor differs from
\* playerInTurn is rejected with "Not your turn", whatever the phase and the
\* other arguments; an entity number outside [0,N) is rejected as invalid
\* before the turn is looked at.
C7_NotYourTurn ==
    /\ \A data \in MoveRequests :
          (data.fields /\ data.player # game.playerInTurn) =>
              make_move(game, data).resp =
                  IF data.player \in Entities
                      THEN Err("move", "Not your turn")
                  ELSE Err("move", "Invalid player")
    /\ \A data \in AttackRequests :
          (data.fields /\ data.attacker # game.playerInTurn) =>
              attack(game, data).resp =
                  IF data.attacker \in Entities /\ data.target \in Entities
                      THEN Err("attack", "Not your turn")
                  ELSE Err("attack", "Invalid player numbers")
    /\ \A data \in EndTurnRequests :
          (data.fields /\ data.player # game.playerInTurn) =>
              end_turn(game, data).resp =
                  IF data.player \in Entities
                      THEN Err("end_turn", "Not your turn")
                  ELSE Err("end_turn", "Invalid player")

\* an attack by an entity that does not hold the turn has just been rejected
\* in the phase in which attacks are legal
C7_Witness ==
    /\ resp = Err("attack", "Not your turn")
    /\ game.phase = MOVING
    /\ turns = 1

\* ------------------------------------------------------------------------
\* C8: two move/attack/end_turn requests handled concurrently on one session
\* are serialized: their responses and the session they leave equal those of
\* handling them one after the other in some order. In particular at most
\* one of two concurrent moves of the owner in one planning phase is
\* accepted, and two concurrent end_turn requests advance the turn at most
\* once.
\* ------------------------------------------------------------------------
Handler(g, data) ==
    CASE data.op = "move" -> make_move(g, data)
      [] data.op = "attack" -> attack(g, data)
      [] data.op = "end_turn" -> end_turn(g, data)

\* the session and the responses after handling first, then second
Serial(g, first, second) ==
    LET a == Handler(g, first)
        b == Handler(a.game, second)
    IN [game |-> b.game, first |-> a.resp, second |-> b.resp]

BothDone == \A t \in Threads : pc[t] = "done"

C8_ConcurrentRequestsSerialized ==
    BothDone =>
        /\ \/ [game |-> game, first |-> tresp[1], second |-> tresp[2]]
                 = Serial(base, treq[1], treq[2])
           \/ [game |-> game, first |-> tresp[2], second |-> tresp[1]]
                 = Serial(base, treq[2], treq[1])
        /\ (treq[1].op = "move" /\ treq[2].op = "move")
              => ~(tresp[1].ok /\ tresp[2].ok)
        /\ (treq[1].op = "end_turn" /\ treq[2].op = "end_turn")
              => ~(tresp[1].ok /\ tresp[2].ok)

\* ------------------------------------------------------------------------
\* C9: in every reachable state and for every entity i,
\* 0 <= health[i] <= max_health[i].
\* ------------------------------------------------------------------------
C9_HealthInRange ==
    \A i \in Entities :
        /\ 0 <= game.stats[i].health
        /\ game.stats[i].health <= game.stats[i].max_health

\* an attack has just brought an entity's health down to 0
C9_Witness ==
    /\ resp = Ok("attack")
    /\ \E i \in Entities : game.stats[i].health = 0
    /\ \E i \in Entities : game.stats[i].health = 5

\* ------------------------------------------------------------------------
\* C10: in every reachable state and for every entity i, lastPath[i] is
\* non-empty and its last element equals position[i].
\* ------------------------------------------------------------------------
C10_LastPathEndsAtPosition ==
    \A i \in Entities :
        /\ Len(game.lastPaths[i]) >= 1
        /\ game.lastPaths[i][Len(game.lastPaths[i])] = game.positions[i]

\* an entity moved along a two-cell path after a scenario placed it
C10_Witness ==
    /\ resp = Ok("move")
    /\ game.positions[1] = Pos(4, 3)
    /\ \E i \in Entities :
          /\ Len(game.lastPaths[i]) = 2
          /\ game.lastPaths[i][1] # game.positions[i]

\* ------------------------------------------------------------------------
\* C11: in every reachable state the turn owner is an entity index,
\* 0 <= playerInTurn < MAX_ENTITIES, and the phase is one of planning and
\* moving; the scan's -1 is never stored as the turn owner.
\* ------------------------------------------------------------------------
C11_TurnOwnerAndPhaseInRange ==
    /\ game.playerInTurn \in Int
    /\ 0 <= game.playerInTurn
    /\ game.playerInTurn < MAX_ENTITIES
    /\ game.playerInTurn # -1
    /\ game.phase \in {PLANNING, MOVING}

\* an end_turn has just given the turn to the entity of the highest index
C11_Witness ==
    /\ resp = Ok("end_turn")
    /\ game.playerInTurn = MAX_ENTITIES - 1
    /\ game.phase = PLANNING

\* ------------------------------------------------------------------------
\* C12: the preconditions of a move are checked in a fixed order: the actor
\* is an entity index (else "Invalid player"), the actor holds the turn
\* (else "Not your turn"), the phase is planning (else "Not in planning
\* phase"), the path is non-empty (else "Empty path"), the path starts on
\* the actor's position (else "Path must start from current position"),
\* every two consecutive cells of the path are adjacent (else "Invalid path
\* - non-adjacent hexes"). The response carries the error of the first
\* precondition that fails, the six errors are distinct, and the move is
\* accepted exactly when all six hold.
\* ------------------------------------------------------------------------
MoveErrors ==
    <<"Invalid player", "Not your turn", "Not in planning phase",
      "Empty path", "Path must start from current position",
      "Invalid path - non-adjacent hexes">>

\* the six preconditions of the move data on the session g, in order
MovePreconditions(g, data) ==
    <<data.player \in Entities,
      data.player = g.playerInTurn,
      g.phase = PLANNING,
      data.path # <<>>,
      data.path # <<>> /\ data.player \in Entities
          /\ data.path[1] = g.positions[data.player],
      \A i \in 1..(Len(data.path) - 1) :
          is_adjacent_hex(data.path[i], data.path[i + 1])>>

\* the indexes of the preconditions that fail
Failing(pre) == {k \in 1..Len(pre) : ~pre[k]}

FirstFailing(pre) ==
    CHOOSE k \in Failing(pre) : \A j \in Failing(pre) : k <= j

C12_MovePreconditionOrder ==
    /\ \A j, k \in 1..Len(MoveErrors) :
          j # k => MoveErrors[j] # MoveErrors[k]
    /\ \A data \in MoveRequests :
          data.fields =>
              LET pre == MovePreconditions(game, data)
                  r == make_move(game, data).resp
              IN /\ r.ok <=> Failing(pre) = {}
                 /\ ~r.ok => r.error = MoveErrors[FirstFailing(pre)]

\* a move whose path neither starts on the owner's cell nor has adjacent
\* steps was rejected for its first cell
C12_Witness ==
    /\ resp = Err("move", "Path must start from current position")
    /\ game.phase = PLANNING
    /\ \E data \in MoveRequests :
          /\ data.fields
          /\ Failing(MovePreconditions(game, data)) = {5, 6}

\* ------------------------------------------------------------------------
\* C13: the preconditions of an attack are checked in a fixed order:
\* attacker and target are entity indexes (else "Invalid player numbers"),
\* the attacker holds the turn (else "Not your turn"), the phase is moving
\* (else "Not in moving phase"), attacker and target differ (else "Cannot
\* attack yourself"), their positions are adjacent (else "Target not
\* adjacent"), the target's health is above 0 (else "Target is already
\* dead"). The response carries the error of the first precondition that
\* fails, so a dead target that is not adjacent gives "Target not adjacent",
\* and the attack is accepted exactly when all six hold.
\* ------------------------------------------------------------------------
AttackErrors ==
    <<"Invalid player numbers", "Not your turn", "Not in moving phase",
      "Cannot attack yourself", "Target not adjacent",
      "Target is already dead">>

\* the six preconditions of the attack data on the session g, in order
AttackPreconditions(g, data) ==
    LET inRange == data.attacker \in Entities /\ data.target \in Entities
    IN <<inRange,
         data.attacker = g.playerInTurn,
         g.phase = MOVING,
         data.attacker # data.target,
         inRange /\ is_adjacent_hex(g.positions[data.attacker],
                                    g.positions[data.target]),
         inRange /\ g.stats[data.target].health > 0>>

C13_AttackPreconditionOrder ==
    /\ \A j, k \in 1..Len(AttackErrors) :
          j # k => AttackErrors[j] # AttackErrors[k]
    /\ \A data \in AttackRequests :
          data.fields =>
              LET pre == AttackPreconditions(game, data)
                  r == attack(game, data).resp
              IN /\ r.ok <=> Failing(pre) = {}
                 /\ ~r.ok => r.error = AttackErrors[FirstFailing(pre)]

\* an attack on a dead entity that is not adjacent to the attacker was
\* rejected for the distance: every entity away from the attacker is dead
C13_Witness ==
    /\ resp = Err("attack", "Target not adjacent")
    /\ game.phase = MOVING
    /\ \E target \in Entities :
          /\ target # game.playerInTurn
          /\ game.stats[target].health = 0
          /\ ~is_adjacent_hex(game.positions[game.playerInTurn],
                              game.positions[target])
    /\ \A other \in Entities \ {game.playerInTurn} :
          is_adjacent_hex(game.positions[game.playerInTurn],
                          game.positions[other])
              \/ game.stats[other].health = 0

\* ------------------------------------------------------------------------
\* C14: at most one move is accepted per turn. Every accepted move starts
\* in the planning phase, is the turn owner's, and leaves the moving phase
\* with the same owner; every accepted attack and every accepted end_turn
\* starts in the moving phase; the phase changes only by an accepted move
\* (planning to moving) or an accepted end_turn (moving to planning), and
\* the owner changes only by an accepted end_turn. So between two accepted
\* moves there is an accepted end_turn, and an accepted attack or end_turn
\* follows, in the same turn, an accepted move of the same owner.
\* ------------------------------------------------------------------------
C14_OneMovePerTurn ==
    [][/\ resp' = Ok("move") =>
             /\ game.phase = PLANNING
             /\ game'.phase = MOVING
             /\ game'.playerInTurn = game.playerInTurn
             /\ \A i \in Entities \ {game.playerInTurn} :
                   /\ game'.positions[i] = game.positions[i]
                   /\ game'.lastPaths[i] = game.lastPaths[i]
       /\ resp' = Ok("attack") =>
             /\ game.phase = MOVING
             /\ game'.phase = MOVING
             /\ game'.playerInTurn = game.playerInTurn
       /\ resp' = Ok("end_turn") =>
             /\ game.phase = MOVING
             /\ game'.phase = PLANNING
       /\ game'.phase # game.phase =>
             resp' \in {Ok("move"), Ok("end_turn")}
       /\ game'.playerInTurn # game.playerInTurn =>
             resp' = Ok("end_turn")]_vars

\* the next turn owner's move has been accepted after an end_turn
C14_Witness ==
    /\ resp = Ok("move")
    /\ turns = 1
    /\ game.phase = MOVING
    /\ game.playerInTurn # 0

\* ------------------------------------------------------------------------
\* C15: applying a scenario is accepted in either phase and changes neither
\* the phase, nor the turn owner, nor any entity's health, max_health or
\* strength. When the scenario has at least MAX_ENTITIES positions, every
\* entity's position becomes the one supplied for it and its lastPath the
\* one-element path of that position; when it has fewer (or none), no
\* position and no lastPath changes.
\* ------------------------------------------------------------------------
C15_ScenarioFrame ==
    \A data \in SetScenarioRequests :
        (data.fields /\ data.file = "ok") =>
            LET r == set_scenario(game, data)
                supplied == IF data.scenario_data.hasPositions
                                THEN data.scenario_data.player_positions
                            ELSE <<>>
            IN /\ r.resp.ok
               /\ r.game.phase = game.phase
               /\ r.game.playerInTurn = game.playerInTurn
               /\ r.game.stats = game.stats
               /\ Len(supplied) >= MAX_ENTITIES =>
                     \A i \in Entities :
                         /\ r.game.positions[i] = supplied[i + 1]
                         /\ r.game.lastPaths[i] = <<r.game.positions[i]>>
               /\ Len(supplied) < MAX_ENTITIES =>
                     /\ r.game.positions = game.positions
                     /\ r.game.lastPaths = game.lastPaths

\* a scenario has been applied in the moving phase, after an attack, and
\* has placed every entity
C15_Witness ==
    /\ resp = Ok("set_scenario")
    /\ game.phase = MOVING
    /\ \E i \in Entities : game.stats[i].health < game.stats[i].max_health
    /\ game.positions[0] = Pos(5, 4)
    /\ \A i \in Entities \ {0} : game.positions[i] = Pos(4, 3)
    /\ \A i \in Entities : game.lastPaths[i] = <<game.positions[i]>>

\* ------------------------------------------------------------------------
\* C16, as the specification states it: on a freshly created session,
\* entity 0's move along (4,4),(5,4) is accepted and gives the moving phase
\* and position (5,4) to entity 0; then entity 0's attack on entity 1 is
\* accepted and leaves entity 1 with health 5; then entity 0's end_turn is
\* accepted and gives the turn to entity 1 in the planning phase.
\* ------------------------------------------------------------------------
ConcreteMove(first) ==
    [op |-> "move", fields |-> TRUE, player |-> 0,
     path |-> <<first, Pos(5, 4)>>]

ConcreteAttack ==
    [op |-> "attack", fields |-> TRUE, attacker |-> 0, target |-> 1]

ConcreteEndTurn == [op |-> "end_turn", fields |-> TRUE, player |-> 0]

\* the three requests handled one after the other on the session g
ConcreteRun(g, first) ==
    LET moved == make_move(g, ConcreteMove(first))
        attacked == attack(moved.game, ConcreteAttack)
        ended == end_turn(attacked.game, ConcreteEndTurn)
    IN /\ moved.resp.ok
       /\ moved.game.phase = MOVING
       /\ moved.game.positions[0] = Pos(5, 4)
       /\ moved.game.positions[1] = Pos(6, 3)
       /\ attacked.resp.ok
       /\ attacked.game.stats[1].health = 5
       /\ ended.resp.ok
       /\ ended.game.playerInTurn = 1
       /\ ended.game.phase = PLANNING

\* the session is as create_game made it
Fresh == game = create_game

C16_Original == Fresh => ConcreteRun(game, Pos(4, 4))

\* C16, amended: the same run with the path (4,3),(5,4), which starts on
\* entity 0's spawn position; the path (4,4),(5,4) is rejected with "Path
\* must start from current position".
C16_ConcreteRun ==
    Fresh =>
        /\ ConcreteRun(game, Pos(4, 3))
        /\ make_move(game, ConcreteMove(Pos(4, 4))).resp =
               Err("move", "Path must start from current position")

\* the session at the end of the amended run
C16_Witness ==
    /\ resp = Ok("end_turn")
    /\ turns = 1
    /\ game = [create_game EXCEPT
                  !.positions[0] = Pos(5, 4),
                  !.lastPaths[0] = <<Pos(4, 3), Pos(5, 4)>>,
                  !.stats[1].health = 5,
                  !.playerInTurn = 1,
                  !.phase = PLANNING]

\* ------------------------------------------------------------------------
\* C17: is_adjacent_hex(a, b) is true exactly when a and b differ and
\* neither coordinate differs by more than 1; the relation is symmetric and
\* irreflexive, and every cell has exactly 8 adjacent cells.
\* ------------------------------------------------------------------------
\* the cells at most 2 away from pos on either axis
Around(pos) == {Pos(pos.q + dq, pos.r + dr) : dq \in -2..2, dr \in -2..2}

C17_AdjacencyIsEightNeighbours ==
    LET a == probe.pos1
        b == probe.pos2
    IN /\ probe.adjacent <=>
             /\ a # b
             /\ Abs(a.q - b.q) <= 1
             /\ Abs(a.r - b.r) <= 1
       /\ is_adjacent_hex(b, a) = probe.adjacent
       /\ ~is_adjacent_hex(a, a)
       /\ Cardinality({c \in Around(a) : is_adjacent_hex(a, c)}) = 8
       /\ \A c \in Around(a) :
             is_adjacent_hex(a, c) => Abs(c.q - a.q) <= 1 /\ Abs(c.r - a.r) <= 1

\* the function has been applied to two diagonal neighbours, which it
\* reports adjacent
C17_Witness ==
    /\ probe.adjacent
    /\ probe.pos2.q = probe.pos1.q + 1
    /\ probe.pos2.r = probe.pos1.r + 1

\* ------------------------------------------------------------------------
\* C18: in every reachable state the turn owner is alive, so the scan of
\* end_turn, started from the owner, never returns -1, and no request is
\* answered "Game over - no alive players".
\* ------------------------------------------------------------------------
C18_TurnOwnerAlive ==
    /\ game.stats[game.playerInTurn].health > 0
    /\ get_next_alive_player(game, game.playerInTurn) # -1
    /\ resp.error # "Game over - no alive players"
    /\ \A data \in EndTurnRequests :
          end_turn(game, data).resp.error # "Game over - no alive players"

\* the turn has passed over a dead entity
C18_Witness ==
    /\ resp = Ok("end_turn")
    /\ game.stats[1].health = 0
    /\ game.playerInTurn = 2
    /\ game.stats[2].health > 0

\* ------------------------------------------------------------------------
\* C19: the session never gets stuck. In every reachable state of the
\* planning phase the owner's move along the one-cell path of its own
\* position is accepted, and in every reachable state of the moving phase
\* the owner's end_turn is accepted; so, with an owner who keeps submitting
\* these requests, the planning phase always leads to the moving phase and
\* the moving phase always leads back to the planning phase.
\* ------------------------------------------------------------------------
OwnerCanAct ==
    /\ game.phase = PLANNING =>
          LET r == make_move(game, OwnerStayRequest(game))
          IN r.resp.ok /\ r.game.phase = MOVING
    /\ game.phase = MOVING =>
          LET r == end_turn(game, OwnerEndTurnRequest(game))
          IN r.resp.ok /\ r.game.phase = PLANNING

C19_NeverStuck ==
    /\ []OwnerCanAct
    /\ (game.phase = PLANNING) ~> (game.phase = MOVING)
    /\ (game.phase = MOVING) ~> (game.phase = PLANNING)

\* the turn has gone once around all four entities
C19_Witness ==
    /\ resp = Ok("end_turn")
    /\ game.playerInTurn = 0
    /\ game.phase = PLANNING
    /\ \A i \in Entities : game.stats[i].health > 0

\* ------------------------------------------------------------------------
\* C20: a move does not look at the other entities. A move whose path goes
\* over or ends on a cell that holds another entity, alive or dead, is
\* accepted when its six preconditions hold, so two entities can stand on
\* one cell; and an attack between two entities on one cell is rejected:
\* with "Target not adjacent" when the attacker holds the turn in the moving
\* phase, and by the earlier turn or phase check otherwise.
\* ------------------------------------------------------------------------
\* the path of the move data goes over a cell that holds another entity
OverOccupied(g, data) ==
    \E i \in 1..Len(data.path), j \in Entities \ {data.player} :
        data.path[i] = g.positions[j]

C20_MovesIgnoreOccupancy ==
    /\ \A data \in MoveRequests :
          (/\ data.fields
           /\ Failing(MovePreconditions(game, data)) = {}
           /\ OverOccupied(game, data)) =>
              LET r == make_move(game, data)
              IN /\ r.resp.ok
                 /\ r.game.positions[data.player] = data.path[Len(data.path)]
    /\ \A data \in AttackRequests :
          (/\ data.fields
           /\ data.attacker \in Entities
           /\ data.target \in Entities
           /\ data.attacker # data.target
           /\ game.positions[data.attacker] = game.positions[data.target]) =>
              LET r == attack(game, data)
              IN /\ ~r.resp.ok
                 /\ r.game = game
                 /\ r.resp.error \in {"Not your turn", "Not in moving phase",
                                      "Target not adjacent"}
                 /\ (data.attacker = game.playerInTurn /\ game.phase = MOVING)
                       => r.resp.error = "Target not adjacent"

\* the owner has moved along two cells onto a cell that holds other
\* entities, and its attack on one of them has been rejected: every entity
\* on another cell is adjacent to the owner
C20_Witness ==
    /\ resp = Err("attack", "Target not adjacent")
    /\ game.phase = MOVING
    /\ Len(game.lastPaths[game.playerInTurn]) = 2
    /\ game.lastPaths[game.playerInTurn][1] # game.positions[game.playerInTurn]
    /\ \E j \in Entities \ {game.playerInTurn} :
          game.positions[j] = game.positions[game.playerInTurn]
    /\ \A j \in Entities \ {game.playerInTurn} :
          game.positions[j] # game.positions[game.playerInTurn] =>
              is_adjacent_hex(game.positions[j],
                              game.positions[game.playerInTurn])

====
